---- MODULE Spec2Model ----
(***************************************************************************)
(* A model of the type-erasing callable container `function<R (Args...)>`. *)
(*                                                                         *)
(* A function object is one `storage` record: an in-place buffer `buf`     *)
(* and a pointer `desc` to a static type_descriptor (copy, move, invoke,   *)
(* destroy).  There are three kinds of type_descriptor: the one returned   *)
(* by empty_type_descriptor(), and for every callable type T the one of    *)
(* object_traits<T> for a T that fits the small storage (the object lives  *)
(* in buf) or the one for a T that does not (buf holds a heap pointer).    *)
(*                                                                         *)
(* The heap is a map from addresses to objects; an address is never handed *)
(* out twice, so that every allocation can be followed to its delete.      *)
(***************************************************************************)
EXTENDS Integers, FiniteSets, Sequences, TLC

\* ---- bounds of the model ----
MaxAllocs == 3        \* addresses the heap can hand out before new throws
MaxVal == 2           \* distinct states (observable results) of a callable

\* ---- program constants (64-bit build) ----
INPLACE_BUFFER_SIZE == 8
INPLACE_BUFFER_ALIGNMENT == 8

\* ---- the universe: function objects, callable types, values ----
Functions == {"a", "b"}
Backup == "backup"
Locations == Functions \cup {Backup}
Types == {"Small", "Large", "ThrowingMove"}
NoType == "none"
Vals == 1..MaxVal
MovedFrom == 0        \* the state a T is left in by T(T&&)
Addrs == 1..MaxAllocs

sizeof(T) == CASE T = "Small" -> 8 [] T = "Large" -> 16 [] T = "ThrowingMove" -> 8
alignof(T) == CASE T = "Small" -> 8 [] T = "Large" -> 8 [] T = "ThrowingMove" -> 8
is_nothrow_move_constructible(T) == T # "ThrowingMove"

fits_small_storage_any_move(T) ==
    /\ sizeof(T) <= INPLACE_BUFFER_SIZE
    /\ alignof(T) <= INPLACE_BUFFER_ALIGNMENT

fits_small_storage(T) ==
    /\ sizeof(T) <= INPLACE_BUFFER_SIZE
    /\ alignof(T) <= INPLACE_BUFFER_ALIGNMENT
    /\ is_nothrow_move_constructible(T)

\* ---- type descriptors: one static instance per kind and type ----
UninitDesc == [strategy |-> "uninit", type |-> NoType]
empty_type_descriptor == [strategy |-> "empty", type |-> NoType]
get_type_descriptor(T) ==
    IF fits_small_storage(T) THEN [strategy |-> "inline", type |-> T]
                             ELSE [strategy |-> "owned", type |-> T]

\* ---- contents of an inplace_buffer ----
Raw == [k |-> "raw", type |-> NoType, v |-> 0]          \* no object lives here
Obj(T, v) == [k |-> "obj", type |-> T, v |-> v]         \* a T constructed in place
Ptr(a) == [k |-> "ptr", type |-> NoType, v |-> a]       \* set_dynamic(a)
UninitStorage == [desc |-> UninitDesc, buf |-> Raw]

\* ---- heap cells ----
Unused == [st |-> "unused", type |-> NoType, v |-> 0, frees |-> 0]
HasUnused(heap) == \E a \in Addrs : heap[a].st = "unused"
NextAddr(heap) == CHOOSE a \in Addrs :
    /\ heap[a].st = "unused"
    /\ \A b \in Addrs : heap[b].st = "unused" => a <= b

\* ---- what one public operation did to held values ----
NoEvents == [news |-> 0, deletes |-> 0, copies |-> 0, moves |-> 0, dtors |-> 0,
             placed |-> 0, unplaced |-> 0, freed |-> {}, ub |-> FALSE]

(***************************************************************************)
(* The operations below work on a machine state                            *)
(*   m = [stg, heap, ev, exc, ret]                                         *)
(* stg maps every storage location (the stg member of each function and    *)
(* the local `backup` of copy-assignment) to its [desc, buf]; exc is the   *)
(* exception in flight ("none" when there is none) and ret the value       *)
(* returned by invoke.                                                     *)
(***************************************************************************)
Machine(s, h, e) == [stg |-> s, heap |-> h, ev |-> e, exc |-> "none", ret |-> 0]
Flag(m) == [m EXCEPT !.ev.ub = TRUE]

\* storage accessors
get_static(m, loc) == m.stg[loc].buf.v
get_dynamic(m, loc) == IF m.stg[loc].buf.k = "ptr" THEN m.stg[loc].buf.v ELSE 0
set_dynamic(m, loc, a) == [m EXCEPT !.stg[loc].buf = Ptr(a)]
HoldsObject(m, loc) == m.stg[loc].buf.k = "obj"
IsLive(heap, p) == p \in Addrs /\ heap[p].st = "live"
Deref(m, p) == IF IsLive(m.heap, p) THEN m.heap[p].v ELSE MovedFrom

\* `new T(v)` once the allocation and the constructor are known to succeed
New(m, T, v) ==
    [m EXCEPT !.heap[NextAddr(m.heap)] = [st |-> "live", type |-> T, v |-> v, frees |-> 0],
              !.ev.news = @ + 1]

\* `delete p`
Delete(m, p) ==
    IF IsLive(m.heap, p)
    THEN [m EXCEPT !.heap[p] = [Unused EXCEPT !.st = "freed", !.frees = 1],
                   !.ev.deletes = @ + 1, !.ev.dtors = @ + 1,
                   !.ev.freed = @ \cup {p}]
    ELSE IF p \in Addrs
    THEN Flag([m EXCEPT !.heap[p].frees = IF @ < 2 THEN @ + 1 ELSE @])
    ELSE Flag(m)

\* ---- empty_type_descriptor ----
empty_invoke_returns(m, src) == [m EXCEPT !.ret = MovedFrom]

empty_move_noop(m, dst, src) == m

empty_copy(m, dst, src) == [m EXCEPT !.stg[dst].desc = empty_type_descriptor]
empty_move(m, dst, src) == [m EXCEPT !.stg[dst].desc = empty_type_descriptor]
empty_invoke(m, src) == [m EXCEPT !.exc = "bad_function_call"]
empty_destroy(m, src) == m

\* ---- object_traits<T, fits_small_storage<T>>: T lives in buf ----
inline_copy_moves(T, m, dst, src, fail) ==
    IF fail = "ctor_throws" THEN [m EXCEPT !.exc = "ctor_throws"]
    ELSE LET m1 == [m EXCEPT !.stg[dst].buf = Obj(T, get_static(m, src)),
                             !.ev.copies = @ + 1, !.ev.placed = @ + 1]
             m2 == [m1 EXCEPT !.stg[src].buf = Obj(T, MovedFrom)]
         IN [m2 EXCEPT !.stg[dst].desc = m2.stg[src].desc]

inline_copy(T, m, dst, src, fail) ==
    IF fail = "ctor_throws" THEN [m EXCEPT !.exc = "ctor_throws"]
    ELSE LET ok == HoldsObject(m, src) /\ ~HoldsObject(m, dst)
             m1 == [m EXCEPT !.stg[dst].buf = Obj(T, get_static(m, src)),
                             !.ev.copies = @ + 1, !.ev.placed = @ + 1]
             m2 == [m1 EXCEPT !.stg[dst].desc = m1.stg[src].desc]
         IN IF ok THEN m2 ELSE Flag(m2)

inline_move_resets_source(T, m, dst, src) ==
    LET ok == HoldsObject(m, src) /\ ~HoldsObject(m, dst)
        m1 == [m EXCEPT !.stg[dst].buf = Obj(T, get_static(m, src)),
                        !.ev.moves = @ + 1, !.ev.placed = @ + 1]
        m2 == [m1 EXCEPT !.stg[src].buf = Obj(T, MovedFrom)]
        m3 == [m2 EXCEPT !.stg[dst].desc = m2.stg[src].desc]
        m4 == [m3 EXCEPT !.stg[src].desc = empty_type_descriptor]
    IN IF ok THEN m4 ELSE Flag(m4)

inline_move(T, m, dst, src) ==
    LET ok == HoldsObject(m, src) /\ ~HoldsObject(m, dst)
        m1 == [m EXCEPT !.stg[dst].buf = Obj(T, get_static(m, src)),
                        !.ev.moves = @ + 1, !.ev.placed = @ + 1]
        m2 == [m1 EXCEPT !.stg[src].buf = Obj(T, MovedFrom)]
        m3 == [m2 EXCEPT !.stg[dst].desc = m2.stg[src].desc]
    IN IF ok THEN m3 ELSE Flag(m3)

inline_invoke(T, m, src, throws) ==
    LET m1 == IF throws THEN [m EXCEPT !.exc = "callable_exception"]
                        ELSE [m EXCEPT !.ret = get_static(m, src)]
    IN IF HoldsObject(m, src) THEN m1 ELSE Flag(m1)

inline_destroy(T, m, src) ==
    LET m1 == [m EXCEPT !.stg[src].buf = Raw, !.ev.dtors = @ + 1,
                        !.ev.unplaced = @ + 1]
    IN IF HoldsObject(m, src) THEN m1 ELSE Flag(m1)

inline_initialize_storage(T, m, loc, v) ==
    LET m1 == [m EXCEPT !.stg[loc].buf = Obj(T, v), !.ev.placed = @ + 1]
    IN IF HoldsObject(m, loc) THEN Flag(m1) ELSE m1

\* ---- object_traits<T, !fits_small_storage<T>>: buf holds the address of a T ----
owned_copy_leaks_on_throw(T, m, dst, src, fail) ==
    IF fail = "bad_alloc" \/ ~HasUnused(m.heap) THEN [m EXCEPT !.exc = "bad_alloc"]
    ELSE IF fail = "ctor_throws"
    THEN [New(m, T, MovedFrom) EXCEPT !.exc = "ctor_throws"]
    ELSE LET p == get_dynamic(m, src)
             a == NextAddr(m.heap)
             m1 == set_dynamic([New(m, T, Deref(m, p)) EXCEPT !.ev.copies = @ + 1], dst, a)
         IN [m1 EXCEPT !.stg[dst].desc = m1.stg[src].desc]

owned_copy_shallow(T, m, dst, src, fail) ==
    IF fail = "bad_alloc" \/ ~HasUnused(m.heap) THEN [m EXCEPT !.exc = "bad_alloc"]
    ELSE IF fail = "ctor_throws" THEN [m EXCEPT !.exc = "ctor_throws"]
    ELSE LET m1 == set_dynamic(m, dst, get_dynamic(m, src))
         IN [m1 EXCEPT !.stg[dst].desc = m1.stg[src].desc]

owned_copy(T, m, dst, src, fail) ==
    IF fail = "bad_alloc" \/ ~HasUnused(m.heap) THEN [m EXCEPT !.exc = "bad_alloc"]
    ELSE IF fail = "ctor_throws" THEN [m EXCEPT !.exc = "ctor_throws"]
    ELSE LET p == get_dynamic(m, src)
             a == NextAddr(m.heap)
             m1 == set_dynamic([New(m, T, Deref(m, p)) EXCEPT !.ev.copies = @ + 1], dst, a)
             m2 == [m1 EXCEPT !.stg[dst].desc = m1.stg[src].desc]
         IN IF IsLive(m.heap, p) THEN m2 ELSE Flag(m2)

owned_move_keeps_source(T, m, dst, src) ==
    LET m1 == set_dynamic(m, dst, get_dynamic(m, src))
    IN [m1 EXCEPT !.stg[dst].desc = m1.stg[src].desc]

owned_move_without_table(T, m, dst, src) ==
    LET m1 == set_dynamic(m, dst, get_dynamic(m, src))
    IN [m1 EXCEPT !.stg[src].desc = empty_type_descriptor]

owned_move(T, m, dst, src) ==
    LET m1 == set_dynamic(m, dst, get_dynamic(m, src))
        m2 == [m1 EXCEPT !.stg[dst].desc = m1.stg[src].desc]
    IN [m2 EXCEPT !.stg[src].desc = empty_type_descriptor]

owned_invoke_swallows(T, m, src, throws) ==
    LET p == get_dynamic(m, src)
        m1 == [m EXCEPT !.ret = Deref(m, p)]
    IN IF IsLive(m.heap, p) THEN m1 ELSE Flag(m1)

owned_invoke(T, m, src, throws) ==
    LET p == get_dynamic(m, src)
        m1 == IF throws THEN [m EXCEPT !.exc = "callable_exception"]
                        ELSE [m EXCEPT !.ret = Deref(m, p)]
    IN IF IsLive(m.heap, p) THEN m1 ELSE Flag(m1)

owned_destroy(T, m, src) == Delete(m, get_dynamic(m, src))

owned_initialize_storage(T, m, loc, v, fail) ==
    IF fail = "bad_alloc" \/ ~HasUnused(m.heap) THEN [m EXCEPT !.exc = "bad_alloc"]
    ELSE IF fail = "ctor_throws" /\ ~is_nothrow_move_constructible(T)
    THEN [m EXCEPT !.exc = "ctor_throws"]
    ELSE set_dynamic(New(m, T, v), loc, NextAddr(m.heap))

\* ---- calls through a type_descriptor d: d->copy, d->move, d->invoke, d->destroy ----
copy(d, m, dst, src, fail) ==
    CASE d.strategy = "empty" -> empty_copy(m, dst, src)
      [] d.strategy = "inline" -> inline_copy(d.type, m, dst, src, fail)
      [] d.strategy = "owned" -> owned_copy(d.type, m, dst, src, fail)
      [] OTHER -> Flag(m)

move(d, m, dst, src) ==
    CASE d.strategy = "empty" -> empty_move(m, dst, src)
      [] d.strategy = "inline" -> inline_move(d.type, m, dst, src)
      [] d.strategy = "owned" -> owned_move(d.type, m, dst, src)
      [] OTHER -> Flag(m)

invoke(d, m, src, throws) ==
    CASE d.strategy = "empty" -> empty_invoke(m, src)
      [] d.strategy = "inline" -> inline_invoke(d.type, m, src, throws)
      [] d.strategy = "owned" -> owned_invoke(d.type, m, src, throws)
      [] OTHER -> Flag(m)

destroy(d, m, src) ==
    CASE d.strategy = "empty" -> empty_destroy(m, src)
      [] d.strategy = "inline" -> inline_destroy(d.type, m, src)
      [] d.strategy = "owned" -> owned_destroy(d.type, m, src)
      [] OTHER -> Flag(m)

initialize_storage(T, m, loc, v, fail) ==
    IF fits_small_storage(T) THEN inline_initialize_storage(T, m, loc, v)
                             ELSE owned_initialize_storage(T, m, loc, v, fail)

\* ---- the observers of function, as functions of a state (s, h) ----
operator_bool(s, f) == s[f].desc # empty_type_descriptor

nullptr == [k |-> "null", f |-> "none", a |-> 0]
inline_as_target(T, s, f) == [k |-> "buf", f |-> f, a |-> 0]
owned_as_target(T, s, f) == [k |-> "heap", f |-> "none", a |-> s[f].buf.v]
as_target(T, s, f) ==
    IF fits_small_storage(T) THEN inline_as_target(T, s, f) ELSE owned_as_target(T, s, f)

target_ignores_type(T, s, f) ==
    IF s[f].desc.strategy = get_type_descriptor(T).strategy THEN as_target(T, s, f)
                                                            ELSE nullptr

target(T, s, f) ==
    IF s[f].desc = get_type_descriptor(T) THEN as_target(T, s, f) ELSE nullptr

\* the value the pointer returned by target<T>() points to
Pointee(s, h, p) ==
    CASE p.k = "buf" -> s[p.f].buf.v
      [] p.k = "heap" -> IF IsLive(h, p.a) THEN h[p.a].v ELSE MovedFrom
      [] OTHER -> MovedFrom

\* operator(): <<exception, result>> of a call whose callable does not throw
Call(s, h, f) ==
    LET m == invoke(s[f].desc, Machine(s, h, NoEvents), f, FALSE)
    IN <<m.exc, m.ret>>

(***************************************************************************)
(* The state.                                                              *)
(*   stg          the storage of every location                            *)
(*   heap         the heap cells                                           *)
(*   constructed  the function objects whose lifetime has begun            *)
(*   pc           "idle" between public operations, else the line of       *)
(*                operator=(function const&) that runs next                *)
(*   last         the public operation that runs or has just returned:     *)
(*                its name, operands, exception and results                *)
(*   ev           what that operation did to held values and to the heap   *)
(*   old          stg, heap and constructed when that operation was entered*)
(***************************************************************************)
VARIABLES stg, heap, constructed, pc, last, ev, old
vars == <<stg, heap, constructed, pc, last, ev, old>>

Failures == {"none", "bad_alloc", "ctor_throws"}

Op(name, this, rhs, T) ==
    [op |-> name, this |-> this, rhs |-> rhs, type |-> T,
     val |-> 0, caught |-> "none", exc |-> "none", ret |-> 0, flag |-> FALSE,
     ptr |-> nullptr]
Snapshot == [stg |-> stg, heap |-> heap, constructed |-> constructed]
Now == Machine(stg, heap, NoEvents)
Resume == Machine(stg, heap, ev)
Commit(m) == stg' = m.stg /\ heap' = m.heap /\ ev' = m.ev

Init ==
    /\ stg = [l \in Locations |-> UninitStorage]
    /\ heap = [a \in Addrs |-> Unused]
    /\ constructed = {}
    /\ pc = "idle"
    /\ last = Op("none", "none", "none", NoType)
    /\ ev = NoEvents
    /\ old = [stg |-> [l \in Locations |-> UninitStorage],
              heap |-> [a \in Addrs |-> Unused], constructed |-> {}]

\* function() noexcept
function_default(f) ==
    /\ pc = "idle" /\ f \notin constructed
    /\ Commit([Now EXCEPT !.stg[f].desc = empty_type_descriptor])
    /\ constructed' = constructed \cup {f}
    /\ last' = Op("function()", f, "none", NoType)
    /\ old' = Snapshot
    /\ UNCHANGED pc

\* template <typename T> function(T val)
function_value(f, T, v, fail) ==
    /\ pc = "idle" /\ f \notin constructed
    /\ LET m0 == [Now EXCEPT !.stg[f].desc = get_type_descriptor(T)]
           m == initialize_storage(T, m0, f, v, fail)
       IN IF m.exc = "none"
          THEN Commit(m) /\ constructed' = constructed \cup {f}
                         /\ last' = [Op("function(T)", f, "none", T) EXCEPT !.val = v]
          ELSE Commit([m EXCEPT !.stg[f] = UninitStorage])
               /\ constructed' = constructed
               /\ last' = [Op("function(T)", f, "none", T) EXCEPT !.val = v, !.exc = m.exc]
    /\ old' = Snapshot
    /\ UNCHANGED pc

\* function(function const& other)
function_copy(f, other, fail) ==
    /\ pc = "idle" /\ f \notin constructed /\ other \in constructed
    /\ LET m == copy(stg[other].desc, Now, f, other, fail)
       IN IF m.exc = "none"
          THEN Commit(m) /\ constructed' = constructed \cup {f}
                         /\ last' = Op("function(const&)", f, other, NoType)
          ELSE Commit([m EXCEPT !.stg[f] = UninitStorage])
               /\ constructed' = constructed
               /\ last' = [Op("function(const&)", f, other, NoType) EXCEPT !.exc = m.exc]
    /\ old' = Snapshot
    /\ UNCHANGED pc

\* function(function&& other) noexcept
function_move(f, other) ==
    /\ pc = "idle" /\ f \notin constructed /\ other \in constructed
    /\ Commit(move(stg[other].desc, Now, f, other))
    /\ constructed' = constructed \cup {f}
    /\ last' = Op("function(&&)", f, other, NoType)
    /\ old' = Snapshot
    /\ UNCHANGED pc

assign_copy_no_self_test(this, rhs) ==
    /\ pc = "idle" /\ this \in constructed /\ rhs \in constructed
    /\ pc' = "move_to_backup"
    /\ Commit(Now)
    /\ last' = Op("operator=(const&)", this, rhs, NoType)
    /\ old' = Snapshot
    /\ UNCHANGED constructed

\* operator=(function const& rhs): the self test and the declaration of backup
assign_copy(this, rhs) ==
    /\ pc = "idle" /\ this \in constructed /\ rhs \in constructed
    /\ pc' = IF this = rhs THEN "idle" ELSE "move_to_backup"
    /\ Commit(Now)
    /\ last' = Op("operator=(const&)", this, rhs, NoType)
    /\ old' = Snapshot
    /\ UNCHANGED constructed

\* stg.desc->move(&backup, &stg)
assign_copy_move_to_backup ==
    /\ pc = "move_to_backup"
    /\ Commit(move(stg[last.this].desc, Resume, Backup, last.this))
    /\ pc' = "destroy_this"
    /\ UNCHANGED <<constructed, last, old>>

assign_copy_destroy_this_cached_desc ==
    /\ pc = "destroy_this"
    /\ Commit(destroy(old.stg[last.this].desc, Resume, last.this))
    /\ pc' = "copy_rhs"
    /\ UNCHANGED <<constructed, last, old>>

assign_copy_destroy_this_skipped ==
    /\ pc = "destroy_this"
    /\ Commit(Resume)
    /\ pc' = "copy_rhs"
    /\ UNCHANGED <<constructed, last, old>>

\* stg.desc->destroy(&stg)
assign_copy_destroy_this ==
    /\ pc = "destroy_this"
    /\ Commit(destroy(stg[last.this].desc, Resume, last.this))
    /\ pc' = "copy_rhs"
    /\ UNCHANGED <<constructed, last, old>>

\* try { rhs.stg.desc->copy(&stg, &rhs.stg); } catch (...)
assign_copy_copy_rhs(fail) ==
    /\ pc = "copy_rhs"
    /\ LET m == copy(stg[last.rhs].desc, Resume, last.this, last.rhs, fail)
       IN /\ Commit(m)
          /\ pc' = IF m.exc = "none" THEN "destroy_backup" ELSE "move_back"
          /\ last' = [last EXCEPT !.caught = m.exc]
    /\ UNCHANGED <<constructed, old>>

assign_copy_move_back_skipped ==
    /\ pc = "move_back"
    /\ Commit(Resume)
    /\ pc' = "destroy_backup_rethrow"
    /\ UNCHANGED <<constructed, last, old>>

\* backup.desc->move(&stg, &backup)
assign_copy_move_back ==
    /\ pc = "move_back"
    /\ Commit(move(stg[Backup].desc, Resume, last.this, Backup))
    /\ pc' = "destroy_backup_rethrow"
    /\ UNCHANGED <<constructed, last, old>>

\* in the handler: backup.desc->destroy(&backup); throw;  (backup goes out of scope)
assign_copy_destroy_backup_rethrow ==
    /\ pc = "destroy_backup_rethrow"
    /\ Commit([destroy(stg[Backup].desc, Resume, Backup) EXCEPT !.stg[Backup] = UninitStorage])
    /\ pc' = "idle"
    /\ last' = [last EXCEPT !.exc = last.caught]
    /\ UNCHANGED <<constructed, old>>

assign_copy_destroy_backup_skipped ==
    /\ pc = "destroy_backup"
    /\ Commit([Resume EXCEPT !.stg[Backup] = UninitStorage])
    /\ pc' = "idle"
    /\ UNCHANGED <<constructed, last, old>>

\* backup.desc->destroy(&backup); return *this;  (backup goes out of scope)
assign_copy_destroy_backup ==
    /\ pc = "destroy_backup"
    /\ Commit([destroy(stg[Backup].desc, Resume, Backup) EXCEPT !.stg[Backup] = UninitStorage])
    /\ pc' = "idle"
    /\ UNCHANGED <<constructed, last, old>>

assign_move_without_destroy(this, rhs) ==
    /\ pc = "idle" /\ this \in constructed /\ rhs \in constructed
    /\ IF this = rhs THEN Commit(Now)
       ELSE Commit(move(stg[rhs].desc, Now, this, rhs))
    /\ last' = Op("operator=(&&)", this, rhs, NoType)
    /\ old' = Snapshot
    /\ UNCHANGED <<constructed, pc>>

\* operator=(function&& rhs) noexcept
assign_move(this, rhs) ==
    /\ pc = "idle" /\ this \in constructed /\ rhs \in constructed
    /\ IF this = rhs THEN Commit(Now)
       ELSE LET m1 == destroy(stg[this].desc, Now, this)
            IN Commit(move(m1.stg[rhs].desc, m1, this, rhs))
    /\ last' = Op("operator=(&&)", this, rhs, NoType)
    /\ old' = Snapshot
    /\ UNCHANGED <<constructed, pc>>

\* ~function()
function_destructor(f) ==
    /\ pc = "idle" /\ f \in constructed
    /\ Commit([destroy(stg[f].desc, Now, f) EXCEPT !.stg[f] = UninitStorage])
    /\ constructed' = constructed \ {f}
    /\ last' = Op("~function", f, "none", NoType)
    /\ old' = Snapshot
    /\ UNCHANGED pc

\* explicit operator bool() const noexcept
function_bool(f) ==
    /\ pc = "idle" /\ f \in constructed
    /\ Commit(Now)
    /\ last' = [Op("operator bool", f, "none", NoType) EXCEPT !.flag = operator_bool(stg, f)]
    /\ old' = Snapshot
    /\ UNCHANGED <<constructed, pc>>

\* R operator()(Args... args) const
function_call(f, throws) ==
    /\ pc = "idle" /\ f \in constructed
    /\ LET m == invoke(stg[f].desc, Now, f, throws)
       IN /\ Commit(m)
          /\ last' = [Op("operator()", f, "none", NoType) EXCEPT
                         !.flag = throws, !.exc = m.exc, !.ret = m.ret]
    /\ old' = Snapshot
    /\ UNCHANGED <<constructed, pc>>

\* template <typename T> T* target() noexcept
function_target(f, T) ==
    /\ pc = "idle" /\ f \in constructed
    /\ Commit(Now)
    /\ last' = [Op("target", f, "none", T) EXCEPT !.ptr = target(T, stg, f)]
    /\ old' = Snapshot
    /\ UNCHANGED <<constructed, pc>>

Next ==
    \/ \E f \in Functions : function_default(f)
    \/ \E f \in Functions, T \in Types, v \in Vals, fail \in Failures :
          function_value(f, T, v, fail)
    \/ \E f, other \in Functions, fail \in Failures : function_copy(f, other, fail)
    \/ \E f, other \in Functions : function_move(f, other)
    \/ \E this, rhs \in Functions : assign_copy(this, rhs)
    \/ assign_copy_move_to_backup
    \/ assign_copy_destroy_this
    \/ \E fail \in Failures : assign_copy_copy_rhs(fail)
    \/ assign_copy_move_back
    \/ assign_copy_destroy_backup_rethrow
    \/ assign_copy_destroy_backup
    \/ \E this, rhs \in Functions : assign_move(this, rhs)
    \/ \E f \in Functions : function_destructor(f)
    \/ \E f \in Functions : function_bool(f)
    \/ \E f \in Functions, throws \in BOOLEAN : function_call(f, throws)
    \/ \E f \in Functions, T \in Types : function_target(f, T)

Spec == Init /\ [][Next]_vars

TypeOK ==
    /\ constructed \subseteq Functions
    /\ pc \in {"idle", "move_to_backup", "destroy_this", "copy_rhs", "move_back",
               "destroy_backup_rethrow", "destroy_backup"}
    /\ \A l \in Locations : stg[l].desc.strategy \in {"uninit", "empty", "inline", "owned"}
(***************************************************************************)
(* Properties.                                                             *)
(***************************************************************************)
Returned(name) == pc = "idle" /\ last.op = name
Strategy(s, f) == s[f].desc.strategy
Refers(s, l, a) == s[l].desc.strategy = "owned" /\ s[l].buf = Ptr(a)
Owners(a) == {f \in constructed : Refers(stg, f, a)}

\* the answers of target<T>() for every T, with the value each points to
Probe(s, h, f) ==
    [T \in Types |-> <<target(T, s, f), Pointee(s, h, target(T, s, f))>>]

\* C1: strong guarantee of copy-assignment.  When a = b (a, b distinct) returns
\* because the copy of b's value failed, a has the table it had when the call
\* was entered and the same held value (same invocation result, same answers
\* of the typed probe), b and the heap are unchanged, and the exception caught
\* is the one that leaves the call.
C1_CopyAssignStrongGuarantee ==
    (Returned("operator=(const&)") /\ last.this # last.rhs /\ last.caught # "none") =>
        /\ stg[last.this].desc = old.stg[last.this].desc
        /\ Call(stg, heap, last.this) = Call(old.stg, old.heap, last.this)
        /\ Probe(stg, heap, last.this) = Probe(old.stg, old.heap, last.this)
        /\ stg[last.rhs] = old.stg[last.rhs]
        /\ heap = old.heap
        /\ last.exc = last.caught

C1_Witness ==
    /\ Returned("operator=(const&)") /\ last.this # last.rhs /\ last.caught # "none"
    /\ Strategy(old.stg, last.this) = "owned"
    /\ ev.moves = 0 /\ ev.deletes = 0

C1_WitnessInline ==
    /\ Returned("operator=(const&)") /\ last.this # last.rhs /\ last.caught # "none"
    /\ Strategy(old.stg, last.this) = "inline"
    /\ old.stg[last.this].buf.v \in Vals
    /\ ev.moves = 2

C1_WitnessEmpty ==
    /\ Returned("operator=(const&)") /\ last.this # last.rhs /\ last.caught # "none"
    /\ Strategy(old.stg, last.this) = "empty"

\* C2: heap accounting of the owned strategy.  Between public operations every
\* live heap object is referred to by exactly one function, whose table is an
\* owned table; no object has been freed twice and a freed object is referred
\* to by no function; once every function is destroyed no object is live.
C2_HeapAccounting ==
    pc = "idle" =>
        /\ \A a \in Addrs :
              /\ heap[a].st = "live" => Cardinality(Owners(a)) = 1
              /\ heap[a].st = "freed" => (Owners(a) = {} /\ heap[a].frees = 1)
              /\ heap[a].st = "unused" => heap[a].frees = 0
        /\ ~ev.ub
        /\ constructed = {} => \A a \in Addrs : heap[a].st # "live"

C2_Witness ==
    /\ pc = "idle" /\ constructed = {}
    /\ \A a \in Addrs : heap[a].st = "freed" /\ heap[a].frees = 1
    /\ last.op = "~function" /\ ev.deletes = 1
MoveOps == {"function(&&)", "operator=(&&)"}
CopyOps == {"function(const&)", "operator=(const&)"}
Moved == pc = "idle" /\ last.op \in MoveOps /\ last.this # last.rhs

\* C3 as stated: after a move-construction or a move-assignment from a distinct
\* source the emptiness test of the source reports empty, whatever it held.
C3_MoveLeavesSourceEmpty ==
    Moved => ~operator_bool(stg, last.rhs)

\* C3 amended: a move from a distinct source gives the destination the table
\* and the value of the source; a source that was empty or held its value
\* under the owned strategy is empty afterwards and the destination is the
\* only function referring to the heap object; a source that held an inline
\* value keeps its inline table (it is not empty) and holds a moved-from object.
C3_MoveLeavesOwnedSourceEmpty ==
    Moved =>
        /\ stg[last.this].desc = old.stg[last.rhs].desc
        /\ Call(stg, heap, last.this) = Call(old.stg, old.heap, last.rhs)
        /\ Strategy(old.stg, last.rhs) \in {"empty", "owned"} =>
              ~operator_bool(stg, last.rhs)
        /\ Strategy(old.stg, last.rhs) = "owned" =>
              Owners(old.stg[last.rhs].buf.v) = {last.this}
        /\ Strategy(old.stg, last.rhs) = "inline" =>
              /\ operator_bool(stg, last.rhs)
              /\ stg[last.rhs] = [desc |-> old.stg[last.rhs].desc,
                                  buf |-> Obj(old.stg[last.rhs].desc.type, MovedFrom)]

C3_Witness ==
    /\ Moved /\ last.op = "function(&&)"
    /\ Strategy(old.stg, last.rhs) = "inline"
    /\ old.stg[last.rhs].buf.v \in Vals
    /\ operator_bool(stg, last.rhs)

C3_WitnessOwned ==
    /\ Moved /\ Strategy(old.stg, last.rhs) = "owned" /\ ~operator_bool(stg, last.rhs)

\* C4: a move-construction or move-assignment from a source that holds its
\* value under the owned strategy leaves the source empty (its table is the
\* empty table), allocates nothing and does not free the moved object, and the
\* destination holds that very heap object: its invocation result and the
\* answers of its typed probe are those of the source before the move.
C4_OwnedMoveTransfersPointer ==
    (Moved /\ Strategy(old.stg, last.rhs) = "owned") =>
        LET p == old.stg[last.rhs].buf.v
        IN /\ ~operator_bool(stg, last.rhs)
           /\ stg[last.rhs].desc = empty_type_descriptor
           /\ ev.news = 0 /\ p \notin ev.freed
           /\ IsLive(heap, p) /\ heap[p] = old.heap[p]
           /\ stg[last.this] = [desc |-> old.stg[last.rhs].desc, buf |-> Ptr(p)]
           /\ Call(stg, heap, last.this) = Call(old.stg, old.heap, last.rhs)
           /\ Probe(stg, heap, last.this) = Probe(old.stg, old.heap, last.rhs)
           /\ target(old.stg[last.rhs].desc.type, stg, last.this)
                 = [k |-> "heap", f |-> "none", a |-> p]

C4_Witness ==
    /\ Moved /\ last.op = "operator=(&&)"
    /\ Strategy(old.stg, last.rhs) = "owned"
    /\ Strategy(old.stg, last.this) = "owned"
    /\ ev.deletes = 1
    /\ Call(stg, heap, last.this)[2] \in Vals

\* C5: operator() raises bad_function_call exactly when operator bool reports
\* empty, however the function became empty; the failed call leaves the
\* function as it was (empty), and a function that is not empty raises at
\* most the exception of its callable.
C5_BadCallIffEmpty ==
    Returned("operator()") =>
        /\ (last.exc = "bad_function_call") <=> ~operator_bool(old.stg, last.this)
        /\ last.exc = "bad_function_call" =>
              /\ ~operator_bool(stg, last.this)
              /\ stg = old.stg /\ heap = old.heap
        /\ operator_bool(old.stg, last.this) => last.exc \in {"none", "callable_exception"}

C5_Witness ==
    /\ Returned("operator()") /\ last.exc = "bad_function_call"
    /\ stg[last.this].buf.k = "ptr"

C5_WitnessDefault ==
    /\ Returned("operator()") /\ last.exc = "bad_function_call"
    /\ stg[last.this].buf.k = "raw"

\* C6: a = a and a = std::move(a) do nothing, whatever a holds: all storage
\* and the heap are as on entry, nothing is allocated, freed, copied, moved or
\* destroyed, and nothing is thrown.
C6_SelfAssignNoOp ==
    (pc = "idle" /\ last.op \in {"operator=(const&)", "operator=(&&)"}
                /\ last.this = last.rhs) =>
        /\ stg = old.stg /\ heap = old.heap /\ constructed = old.constructed
        /\ Call(stg, heap, last.this) = Call(old.stg, old.heap, last.this)
        /\ Probe(stg, heap, last.this) = Probe(old.stg, old.heap, last.this)
        /\ ev = NoEvents
        /\ last.exc = "none"

C6_Witness ==
    /\ Returned("operator=(const&)") /\ last.this = last.rhs
    /\ Strategy(stg, last.this) = "owned"

C6_WitnessMove ==
    /\ Returned("operator=(&&)") /\ last.this = last.rhs
    /\ Strategy(stg, last.this) = "inline" /\ stg[last.this].buf.v \in Vals
\* the type of the object a function holds, read from the object itself
HeldType(s, h, f) ==
    CASE s[f].desc.strategy = "inline" -> s[f].buf.type
      [] s[f].desc.strategy = "owned" /\ IsLive(h, s[f].buf.v) -> h[s[f].buf.v].type
      [] OTHER -> NoType
LiveAddrs == {a \in Addrs : heap[a].st = "live"}
Holders(strategy) == {f \in constructed : Strategy(stg, f) = strategy}

\* C7: storage strategy selection.  A function holds a T in its buffer exactly
\* when sizeof(T) and alignof(T) do not exceed those of the buffer and T's move
\* constructor cannot throw, and otherwise behind a heap pointer; constructing
\* from, copying and moving an inline value allocates nothing, while
\* constructing from and copying an owned value allocates exactly once, so
\* that there is one live heap object per function holding an owned value.
C7_StrategySelection ==
    /\ \A f \in constructed :
          LET T == HeldType(stg, heap, f)
          IN T # NoType =>
               /\ Strategy(stg, f) \in {"inline", "owned"}
               /\ Strategy(stg, f) = "inline" <=>
                     (/\ sizeof(T) <= INPLACE_BUFFER_SIZE
                      /\ alignof(T) <= INPLACE_BUFFER_ALIGNMENT
                      /\ is_nothrow_move_constructible(T))
    /\ (Returned("function(T)") /\ last.exc = "none") =>
          /\ HeldType(stg, heap, last.this) = last.type
          /\ Strategy(stg, last.this) = "inline" => (ev.news = 0 /\ heap = old.heap)
          /\ Strategy(stg, last.this) = "owned" => ev.news = 1
    /\ (pc = "idle" /\ last.op \in CopyOps \cup MoveOps /\ last.exc = "none"
                    /\ last.this # last.rhs) =>
          /\ Strategy(old.stg, last.rhs) = "inline" => ev.news = 0
          /\ (Strategy(old.stg, last.rhs) = "owned" /\ last.op \in CopyOps) => ev.news = 1
    /\ pc = "idle" => Cardinality(LiveAddrs) = Cardinality(Holders("owned"))

C7_Witness ==
    /\ Returned("function(T)") /\ last.exc = "none" /\ last.type = "ThrowingMove"
    /\ Strategy(stg, last.this) = "owned" /\ ev.news = 1
    /\ Holders("inline") # {}

\* C8: typed probe round trip.  target<T>() of a function constructed from a
\* value v of type T points to a value equal to v; a copy or a move hands
\* every non-null answer of the source's probe, with an equal value, to the
\* destination; target<U>() is the null pointer exactly when U is not the type
\* of the held object, hence for every U when the function is empty.
C8_TargetRoundTrip ==
    /\ (Returned("function(T)") /\ last.exc = "none") =>
          /\ target(last.type, stg, last.this) # nullptr
          /\ Pointee(stg, heap, target(last.type, stg, last.this)) = last.val
    /\ (pc = "idle" /\ last.op \in CopyOps \cup MoveOps /\ last.exc = "none"
                    /\ last.this # last.rhs) =>
          \A T \in Types :
             target(T, old.stg, last.rhs) # nullptr =>
                /\ target(T, stg, last.this) # nullptr
                /\ Pointee(stg, heap, target(T, stg, last.this))
                     = Pointee(old.stg, old.heap, target(T, old.stg, last.rhs))
    /\ Returned("target") =>
          /\ (last.ptr # nullptr) <=> (HeldType(stg, heap, last.this) = last.type)
          /\ ~operator_bool(stg, last.this) => last.ptr = nullptr
          /\ last.ptr # nullptr =>
                last.ptr = IF Strategy(stg, last.this) = "inline"
                           THEN [k |-> "buf", f |-> last.this, a |-> 0]
                           ELSE [k |-> "heap", f |-> "none", a |-> stg[last.this].buf.v]

C8_Witness ==
    /\ Returned("target") /\ last.ptr.k = "heap"
    /\ Pointee(stg, heap, last.ptr) \in Vals
    /\ \E g \in constructed \ {last.this} :
          Strategy(stg, g) = "owned" /\ HeldType(stg, heap, g) # last.type

C8_WitnessNull ==
    /\ Returned("target") /\ last.ptr = nullptr /\ operator_bool(stg, last.this)

\* C9: no shared ownership.  Between public operations no two functions refer
\* to the same heap object and every function with an owned table refers to a
\* live one; a successful copy of an owned value gives the destination an
\* object allocated by that copy; and a destruction or an assignment leaves
\* every function that is not an operand of it exactly as it was, holding a
\* live value with the same invocation result.
C9_NoSharedOwnership ==
    /\ pc = "idle" =>
          /\ \A f, g \in constructed : \A a \in Addrs :
                (Refers(stg, f, a) /\ Refers(stg, g, a)) => f = g
          /\ \A f \in Holders("owned") : IsLive(heap, stg[f].buf.v)
    /\ (pc = "idle" /\ last.op \in CopyOps /\ last.exc = "none"
                    /\ last.this # last.rhs /\ Strategy(old.stg, last.rhs) = "owned") =>
          /\ stg[last.this].buf # stg[last.rhs].buf
          /\ old.heap[stg[last.this].buf.v].st = "unused"
          /\ IsLive(heap, stg[last.this].buf.v) /\ IsLive(heap, stg[last.rhs].buf.v)
    /\ (pc = "idle" /\ last.op \in {"~function", "operator=(const&)", "operator=(&&)"}) =>
          \A g \in constructed \ {last.this} :
             (g # last.rhs \/ last.op = "operator=(const&)") =>
                /\ stg[g] = old.stg[g]
                /\ Call(stg, heap, g) = Call(old.stg, old.heap, g)
                /\ Strategy(stg, g) = "owned" => IsLive(heap, stg[g].buf.v)

C9_Witness ==
    /\ Returned("~function") /\ Strategy(old.stg, last.this) = "owned"
    /\ \E g \in constructed :
          /\ Strategy(stg, g) = "owned" /\ IsLive(heap, stg[g].buf.v)
          /\ heap[stg[g].buf.v] = old.heap[old.stg[last.this].buf.v]
          /\ Call(stg, heap, g)[2] \in Vals

\* C10: a successful copy-construction or copy-assignment from a distinct
\* source leaves the source unchanged and gives the destination the source's
\* table and an equal value: invoking the copy yields what invoking the
\* original yields, and the copy of an empty function is empty.
C10_CopyEquivalent ==
    (pc = "idle" /\ last.op \in CopyOps /\ last.exc = "none" /\ last.this # last.rhs) =>
        /\ stg[last.rhs] = old.stg[last.rhs]
        /\ Call(stg, heap, last.rhs) = Call(old.stg, old.heap, last.rhs)
        /\ stg[last.this].desc = old.stg[last.rhs].desc
        /\ Call(stg, heap, last.this) = Call(stg, heap, last.rhs)
        /\ \A T \in Types :
              Pointee(stg, heap, target(T, stg, last.this))
                = Pointee(old.stg, old.heap, target(T, old.stg, last.rhs))
        /\ ~operator_bool(old.stg, last.rhs) => ~operator_bool(stg, last.this)

C10_Witness ==
    /\ Returned("operator=(const&)") /\ last.exc = "none" /\ last.this # last.rhs
    /\ Strategy(stg, last.rhs) = "inline" /\ stg[last.rhs].buf.v \in Vals
    /\ Strategy(old.stg, last.this) = "owned"

C10_WitnessEmpty ==
    /\ Returned("function(const&)") /\ last.exc = "none"
    /\ ~operator_bool(stg, last.rhs) /\ ~operator_bool(stg, last.this)

AssignOps == {"operator=(const&)", "operator=(&&)"}
Assigned == pc = "idle" /\ last.op \in AssignOps /\ last.this # last.rhs /\ last.exc = "none"
RefersTo(f) == {a \in LiveAddrs : Refers(stg, f, a)}

\* C11: repeated assignment into one function.  After every successful copy-
\* or move-assignment from a distinct right-hand side, whatever the function
\* held before (owned, inline, nothing), its table is the table the right-hand
\* side had; the heap object it owned before has been freed, once, by this
\* assignment; and it refers to one live heap object when its table is an
\* owned table and to none otherwise, no live heap object being left without
\* an owner.
C11_ReassignSwitchesStrategy ==
    Assigned =>
        /\ stg[last.this].desc = old.stg[last.rhs].desc
        /\ Strategy(old.stg, last.this) = "owned" =>
              LET p == old.stg[last.this].buf.v
              IN /\ heap[p].st = "freed" /\ heap[p].frees = 1
                 /\ ev.freed = {p} /\ ev.deletes = 1
        /\ Strategy(old.stg, last.this) # "owned" => ev.deletes = 0
        /\ Cardinality(RefersTo(last.this))
              = IF Strategy(stg, last.this) = "owned" THEN 1 ELSE 0
        /\ \A a \in LiveAddrs : Owners(a) # {}
        /\ ~ev.ub

C11_Witness ==
    /\ Assigned /\ last.op = "operator=(const&)"
    /\ Strategy(old.stg, last.this) = "owned"
    /\ Strategy(stg, last.this) = "inline"
    /\ \E a \in Addrs : heap[a].st = "freed" /\ a # old.stg[last.this].buf.v

C11_WitnessToOwned ==
    /\ Assigned /\ last.op = "operator=(&&)"
    /\ Strategy(old.stg, last.this) = "inline"
    /\ Strategy(stg, last.this) = "owned"

\* C12: failure of copy-construction.  When function(function const&) ends
\* with an exception (bad_alloc, or the exception of T's copy constructor),
\* that exception reaches the caller, the source and every other storage are
\* as before, no function has come into existence, and the heap is as before:
\* nothing allocated by the failed copy is live.
C12_CopyConstructFailure ==
    (Returned("function(const&)") /\ last.exc # "none") =>
        /\ last.exc \in {"bad_alloc", "ctor_throws"}
        /\ stg[last.rhs] = old.stg[last.rhs]
        /\ Call(stg, heap, last.rhs) = Call(old.stg, old.heap, last.rhs)
        /\ constructed = old.constructed /\ last.this \notin constructed
        /\ stg = old.stg
        /\ heap = old.heap /\ ev.news = 0

C12_Witness ==
    /\ Returned("function(const&)") /\ last.exc = "ctor_throws"
    /\ Strategy(stg, last.rhs) = "owned"
    /\ HasUnused(heap)

C12_WitnessInline ==
    /\ Returned("function(const&)") /\ last.exc = "ctor_throws"
    /\ Strategy(stg, last.rhs) = "inline"

\* C13: descriptor invariant.  Between public operations the table of every
\* constructed function is the empty table or the table get_type_descriptor
\* yields for some T, never an unset one; under an owned table the buffer
\* holds the address of a live heap object of that T, and under an inline
\* table the buffer holds a constructed object of that T.
C13_DescriptorInvariant ==
    pc = "idle" =>
        \A f \in constructed :
            /\ stg[f].desc # UninitDesc
            /\ \/ stg[f].desc = empty_type_descriptor
               \/ \E T \in Types : stg[f].desc = get_type_descriptor(T)
            /\ Strategy(stg, f) = "owned" =>
                  /\ stg[f].buf.k = "ptr" /\ IsLive(heap, stg[f].buf.v)
                  /\ heap[stg[f].buf.v].type = stg[f].desc.type
            /\ Strategy(stg, f) = "inline" =>
                  /\ stg[f].buf.k = "obj"
                  /\ stg[f].buf.type = stg[f].desc.type

C13_Witness ==
    /\ Returned("operator=(const&)") /\ last.caught # "none"
    /\ constructed = Functions
    /\ Strategy(stg, last.this) = "owned"
    /\ Strategy(stg, last.rhs) = "inline"

C13_WitnessMovedFromEmpty ==
    /\ Returned("function(&&)") /\ ~operator_bool(old.stg, last.rhs)
    /\ stg[last.this].desc = empty_type_descriptor

\* C15: the inline move leaves the source's table as it is.  After a move-
\* construction or move-assignment from a source that held an inline T, the
\* table of the source is still the inline table of T (not the empty table)
\* and its buffer holds a moved-from T, which the move has not destroyed; an
\* object in the buffer of a function ends only through that function's own
\* destruction or reassignment, which destroys it, once.
C15_InlineMoveKeepsSourceTable ==
    /\ (Moved /\ Strategy(old.stg, last.rhs) = "inline") =>
          LET T == old.stg[last.rhs].desc.type
          IN /\ stg[last.rhs].desc = old.stg[last.rhs].desc
             /\ stg[last.rhs].desc = get_type_descriptor(T)
             /\ stg[last.rhs].desc # empty_type_descriptor
             /\ stg[last.rhs].buf = Obj(T, MovedFrom)
             /\ ev.unplaced = IF last.op = "operator=(&&)"
                                  /\ Strategy(old.stg, last.this) = "inline"
                               THEN 1 ELSE 0
    /\ \A f \in old.constructed :
          (old.stg[f].buf.k = "obj" /\ stg[f].buf.k # "obj") =>
             /\ f = last.this
             /\ last.op \in {"~function"} \cup AssignOps
             /\ ev.unplaced >= 1
    /\ (Returned("~function") /\ old.stg[last.this].buf.k = "obj") => ev.unplaced = 1
    /\ (Returned("operator=(&&)") /\ last.this # last.rhs
           /\ old.stg[last.this].buf.k = "obj") => ev.unplaced = 1
    /\ ~ev.ub

C15_Witness ==
    /\ Returned("~function")
    /\ old.stg[last.this].buf = Obj("Small", MovedFrom)
    /\ old.stg[last.this].desc = get_type_descriptor("Small")
    /\ ev.unplaced = 1
    /\ \E g \in constructed : stg[g].buf.k = "obj" /\ stg[g].buf.v \in Vals

C15_WitnessMoved ==
    /\ Moved /\ Strategy(old.stg, last.rhs) = "inline" /\ old.stg[last.rhs].buf.v \in Vals
    /\ operator_bool(stg, last.rhs)

\* C16: ordering inside copy-assignment.  From the move into backup until
\* backup is destroyed or moved back, backup holds the value the target had on
\* entry, alive; destroying the target after the move frees nothing (for an
\* owned value the target then has the empty table); nothing is freed before
\* the last step; on success the original heap object is freed once, by the
\* destroy of backup; on failure the target holds the original value again
\* and the destroy of backup frees nothing.
InCopyAssign == last.op = "operator=(const&)" /\ last.this # last.rhs
Orig == old.stg[last.this]
HoldsOriginal(l) ==
    /\ stg[l].desc = Orig.desc
    /\ Orig.desc.strategy = "inline" => stg[l].buf = Orig.buf
    /\ Orig.desc.strategy = "owned" =>
          /\ stg[l].buf = Orig.buf
          /\ IsLive(heap, Orig.buf.v) /\ heap[Orig.buf.v] = old.heap[Orig.buf.v]

C16_BackupKeepsOriginal ==
    InCopyAssign =>
        /\ pc \in {"destroy_this", "copy_rhs", "move_back", "destroy_backup"} =>
              HoldsOriginal(Backup)
        /\ (pc = "copy_rhs" /\ Orig.desc.strategy = "owned") =>
              stg[last.this].desc = empty_type_descriptor
        /\ pc = "destroy_backup_rethrow" =>
              (HoldsOriginal(last.this) /\ Strategy(stg, Backup) # "owned")
        /\ pc # "idle" => (ev.deletes = 0 /\ ev.freed = {})
        /\ pc \in {"destroy_this", "copy_rhs", "move_back", "destroy_backup_rethrow"} =>
              heap = old.heap
        /\ (pc = "idle" /\ last.caught = "none") =>
              IF Orig.desc.strategy = "owned"
              THEN /\ ev.freed = {Orig.buf.v} /\ ev.deletes = 1
                   /\ heap[Orig.buf.v].frees = 1
              ELSE ev.deletes = 0
        /\ (pc = "idle" /\ last.caught # "none") =>
              (ev.deletes = 0 /\ HoldsOriginal(last.this))
        /\ ~ev.ub

C16_Witness ==
    /\ InCopyAssign /\ pc = "move_back"
    /\ Orig.desc.strategy = "owned"
    /\ HoldsOriginal(Backup)
    /\ stg[last.this].desc = empty_type_descriptor

C16_WitnessInline ==
    /\ InCopyAssign /\ pc = "destroy_backup_rethrow"
    /\ Orig.desc.strategy = "inline" /\ Orig.buf.v \in Vals
    /\ HoldsOriginal(last.this)

\* C17: the observers change nothing.  operator(), operator bool and target
\* leave every storage, the heap and the set of functions as they were and
\* touch no held value; when the callable of a function that is not empty
\* throws, that exception is the one the caller receives, and otherwise the
\* caller receives the callable's result; the table of a function that stays
\* constructed differs from the one at entry only in a construction, a copy,
\* a move or an assignment.
Observers == {"operator()", "operator bool", "target"}
C17_ObserversChangeNothing ==
    /\ (pc = "idle" /\ last.op \in Observers) =>
          /\ stg = old.stg /\ heap = old.heap /\ constructed = old.constructed
          /\ ev = NoEvents
    /\ (Returned("operator()") /\ operator_bool(stg, last.this)) =>
          IF last.flag THEN last.exc = "callable_exception"
          ELSE /\ last.exc = "none"
               /\ last.ret = Pointee(stg, heap, target(HeldType(stg, heap, last.this),
                                                       stg, last.this))
    /\ \A f \in constructed \cap old.constructed :
          stg[f].desc # old.stg[f].desc =>
             /\ last.op \in CopyOps \cup MoveOps
             /\ f \in {last.this, last.rhs}

C17_Witness ==
    /\ Returned("operator()") /\ last.flag /\ last.exc = "callable_exception"
    /\ Strategy(stg, last.this) = "owned"

C17_WitnessTarget ==
    /\ Returned("target") /\ last.ptr # nullptr /\ Strategy(stg, last.this) = "inline"

\* C18: inline object lifetime balance.  At every step the number of objects
\* living in buffers (of functions and of backup) equals the number at the
\* entry of the current operation plus the objects constructed in place
\* minus the objects destroyed in place by it, so that no object is abandoned
\* when a function or backup ends; no object is constructed over a live one
\* and none is destroyed where there is none; between operations a buffer
\* holds an object exactly under an inline table.
InPlace(s) == {l \in Locations : s[l].buf.k = "obj"}
C18_InlineLifetimeBalance ==
    /\ Cardinality(InPlace(stg)) = Cardinality(InPlace(old.stg)) + ev.placed - ev.unplaced
    /\ ~ev.ub
    /\ pc = "idle" =>
          /\ \A f \in constructed : (stg[f].buf.k = "obj") <=> (Strategy(stg, f) = "inline")
          /\ \A l \in Locations \ constructed : stg[l].buf.k # "obj"

C18_Witness ==
    /\ Returned("operator=(const&)") /\ last.this # last.rhs /\ last.caught # "none"
    /\ Strategy(stg, last.this) = "inline" /\ Strategy(stg, last.rhs) = "inline"
    /\ ev.placed = 2 /\ ev.unplaced = 2

C18_WitnessSuccess ==
    /\ Returned("operator=(const&)") /\ last.this # last.rhs /\ last.caught = "none"
    /\ Strategy(old.stg, last.this) = "inline" /\ Strategy(stg, last.rhs) = "inline"
    /\ ev.placed = 2 /\ ev.unplaced = 2

(***************************************************************************)
(* Two threads.  Each thread has its own functions and, inside its call of *)
(* operator=(function const&), its own local backup; the threads share the *)
(* heap and the type descriptors, which are constants.  In SpecThreads the *)
(* variables pc and last hold one value per thread (last[t] is the frame   *)
(* of the copy-assignment thread t is inside: its operands and the         *)
(* exception it caught; NoFrame outside); ev and old are not used.  A step *)
(* of a thread is one public operation on its own functions, or the next   *)
(* line of its copy-assignment.  Thread t1 has two functions, so that it   *)
(* runs every operation; thread t2 has one.  The callables of a thread     *)
(* carry a value of their own, so that an object is told from the other    *)
(* thread's objects.                                                       *)
(***************************************************************************)
Threads == {"t1", "t2"}
Own(t) == IF t = "t1" THEN {"a", "b"} ELSE {"c"}
ThreadVals(t) == IF t = "t1" THEN {1} ELSE {MaxVal}
LocalBackup_shared(t) == Backup
LocalBackup(t) == IF t = "t1" THEN Backup ELSE "backup2"
ThreadFunctions == UNION {Own(t) : t \in Threads}
ThreadLocations == ThreadFunctions \cup {LocalBackup(t) : t \in Threads}

Frame(this, rhs) == [this |-> this, rhs |-> rhs, caught |-> "none", exc |-> "none", ret |-> 0]
NoFrame == Frame("none", "none")
World == [stg |-> stg, heap |-> heap, constructed |-> constructed, pc |-> pc, last |-> last]
Request(name, this, rhs, T, v, fail, throws) ==
    [op |-> name, this |-> this, rhs |-> rhs, type |-> T, val |-> v, fail |-> fail,
     throws |-> throws]
Requests(t) ==
    {Request(n, f, "none", NoType, 0, "none", FALSE) :
        n \in {"function()", "~function"}, f \in Own(t)}
    \cup {Request("function(T)", f, "none", T, v, fail, FALSE) :
        f \in Own(t), T \in Types, v \in ThreadVals(t), fail \in Failures}
    \cup {Request("function(const&)", f, g, NoType, 0, fail, FALSE) :
        f \in Own(t), g \in Own(t), fail \in Failures}
    \cup {Request(n, f, g, NoType, 0, "none", FALSE) :
        n \in {"function(&&)", "operator=(const&)", "operator=(&&)"},
        f \in Own(t), g \in Own(t)}
    \cup {Request("operator()", f, "none", NoType, 0, "none", throws) :
        f \in Own(t), throws \in BOOLEAN}
    \cup {Request("next line", "none", "none", NoType, 0, fail, FALSE) : fail \in Failures}

\* whether thread t can take the step r in the world W
Permitted(t, W, r) ==
    CASE r.op = "next line" -> W.pc[t] # "idle"
      [] r.op \in {"function()", "function(T)"} ->
            W.pc[t] = "idle" /\ r.this \notin W.constructed
      [] r.op \in {"function(const&)", "function(&&)"} ->
            W.pc[t] = "idle" /\ r.this \notin W.constructed /\ r.rhs \in W.constructed
      [] r.op \in {"operator=(const&)", "operator=(&&)"} ->
            W.pc[t] = "idle" /\ r.this \in W.constructed /\ r.rhs \in W.constructed
      [] OTHER -> W.pc[t] = "idle" /\ r.this \in W.constructed

Store(W, m) == [W EXCEPT !.stg = m.stg, !.heap = m.heap]
Born(W, m, f) ==
    IF m.exc = "none" THEN [Store(W, m) EXCEPT !.constructed = @ \cup {f}]
                      ELSE Store(W, [m EXCEPT !.stg[f] = UninitStorage])

\* the next line of operator=(function const&) in thread t
NextLine(t, W, fail) ==
    LET m == Machine(W.stg, W.heap, NoEvents)
        this == W.last[t].this
        rhs == W.last[t].rhs
        backup == LocalBackup(t)
    IN CASE W.pc[t] = "move_to_backup" ->
              [Store(W, move(W.stg[this].desc, m, backup, this)) EXCEPT
                  !.pc[t] = "destroy_this"]
         [] W.pc[t] = "destroy_this" ->
              [Store(W, destroy(W.stg[this].desc, m, this)) EXCEPT !.pc[t] = "copy_rhs"]
         [] W.pc[t] = "copy_rhs" ->
              LET m1 == copy(W.stg[rhs].desc, m, this, rhs, fail)
              IN [Store(W, m1) EXCEPT
                     !.pc[t] = IF m1.exc = "none" THEN "destroy_backup" ELSE "move_back",
                     !.last[t].caught = m1.exc]
         [] W.pc[t] = "move_back" ->
              [Store(W, move(W.stg[backup].desc, m, this, backup)) EXCEPT
                  !.pc[t] = "destroy_backup_rethrow"]
         [] W.pc[t] = "destroy_backup_rethrow" ->
              [Store(W, [destroy(W.stg[backup].desc, m, backup) EXCEPT
                            !.stg[backup] = UninitStorage]) EXCEPT
                  !.pc[t] = "idle", !.last[t] = NoFrame]
         [] W.pc[t] = "destroy_backup" ->
              [Store(W, [destroy(W.stg[backup].desc, m, backup) EXCEPT
                            !.stg[backup] = UninitStorage]) EXCEPT
                  !.pc[t] = "idle", !.last[t] = NoFrame]
         [] OTHER -> W

\* the world after thread t has taken the step r
Effect(t, W, r) ==
    LET m == Machine(W.stg, W.heap, NoEvents)
        W0 == W
    IN CASE r.op = "next line" -> NextLine(t, W, r.fail)
         [] r.op = "function()" ->
              Born(W0, [m EXCEPT !.stg[r.this].desc = empty_type_descriptor], r.this)
         [] r.op = "function(T)" ->
              LET m1 == initialize_storage(r.type,
                           [m EXCEPT !.stg[r.this].desc = get_type_descriptor(r.type)],
                           r.this, r.val, r.fail)
              IN Born(W0, m1, r.this)
         [] r.op = "function(const&)" ->
              LET m1 == copy(W.stg[r.rhs].desc, m, r.this, r.rhs, r.fail)
              IN Born(W0, m1, r.this)
         [] r.op = "function(&&)" ->
              Born(W0, move(W.stg[r.rhs].desc, m, r.this, r.rhs), r.this)
         [] r.op = "operator=(const&)" ->
              IF r.this = r.rhs THEN W0 ELSE [W0 EXCEPT !.pc[t] = "move_to_backup", !.last[t] = Frame(r.this, r.rhs)]
         [] r.op = "operator=(&&)" ->
              IF r.this = r.rhs THEN W0
              ELSE LET m1 == destroy(W.stg[r.this].desc, m, r.this)
                   IN Store(W0, move(m1.stg[r.rhs].desc, m1, r.this, r.rhs))
         [] r.op = "~function" ->
              [Store(W0, [destroy(W.stg[r.this].desc, m, r.this) EXCEPT
                             !.stg[r.this] = UninitStorage]) EXCEPT
                  !.constructed = @ \ {r.this}]
         [] r.op = "operator()" ->
              LET m1 == invoke(W.stg[r.this].desc, m, r.this, r.throws)
              IN Store(W0, m1)
         [] OTHER -> W

Take(t, r) ==
    /\ Permitted(t, World, r)
    /\ LET W == Effect(t, World, r)
       IN /\ stg' = W.stg /\ heap' = W.heap /\ constructed' = W.constructed
          /\ pc' = W.pc /\ last' = W.last
    /\ UNCHANGED <<ev, old>>

InitThreads ==
    /\ stg = [l \in ThreadLocations |-> UninitStorage]
    /\ heap = [a \in Addrs |-> Unused]
    /\ constructed = {}
    /\ pc = [t \in Threads |-> "idle"]
    /\ last = [t \in Threads |-> NoFrame]
    /\ ev = NoEvents
    /\ old = [stg |-> [l \in ThreadLocations |-> UninitStorage],
              heap |-> [a \in Addrs |-> Unused], constructed |-> {}]

thread_function_default(t, f) ==
    Take(t, Request("function()", f, "none", NoType, 0, "none", FALSE))
thread_function_value(t, f, T, v, fail) ==
    Take(t, Request("function(T)", f, "none", T, v, fail, FALSE))
thread_function_copy(t, f, g, fail) ==
    Take(t, Request("function(const&)", f, g, NoType, 0, fail, FALSE))
thread_function_move(t, f, g) ==
    Take(t, Request("function(&&)", f, g, NoType, 0, "none", FALSE))
thread_assign_copy(t, f, g) ==
    Take(t, Request("operator=(const&)", f, g, NoType, 0, "none", FALSE))
thread_assign_copy_line(t, line, fail) ==
    /\ pc[t] = line
    /\ Take(t, Request("next line", "none", "none", NoType, 0, fail, FALSE))
thread_assign_move(t, f, g) ==
    Take(t, Request("operator=(&&)", f, g, NoType, 0, "none", FALSE))
thread_function_destructor(t, f) ==
    Take(t, Request("~function", f, "none", NoType, 0, "none", FALSE))
thread_function_call(t, f, throws) ==
    Take(t, Request("operator()", f, "none", NoType, 0, "none", throws))

NextThreads ==
    \/ \E t \in Threads, f \in ThreadFunctions : f \in Own(t) /\ thread_function_default(t, f)
    \/ \E t \in Threads, f \in ThreadFunctions, T \in Types, v \in Vals, fail \in Failures :
          f \in Own(t) /\ v \in ThreadVals(t) /\ thread_function_value(t, f, T, v, fail)
    \/ \E t \in Threads, f, g \in ThreadFunctions, fail \in Failures :
          f \in Own(t) /\ g \in Own(t) /\ thread_function_copy(t, f, g, fail)
    \/ \E t \in Threads, f, g \in ThreadFunctions :
          f \in Own(t) /\ g \in Own(t) /\ thread_function_move(t, f, g)
    \/ \E t \in Threads, f, g \in ThreadFunctions :
          f \in Own(t) /\ g \in Own(t) /\ thread_assign_copy(t, f, g)
    \/ \E t \in Threads : thread_assign_copy_line(t, "move_to_backup", "none")
    \/ \E t \in Threads : thread_assign_copy_line(t, "destroy_this", "none")
    \/ \E t \in Threads, fail \in Failures : thread_assign_copy_line(t, "copy_rhs", fail)
    \/ \E t \in Threads : thread_assign_copy_line(t, "move_back", "none")
    \/ \E t \in Threads : thread_assign_copy_line(t, "destroy_backup_rethrow", "none")
    \/ \E t \in Threads : thread_assign_copy_line(t, "destroy_backup", "none")
    \/ \E t \in Threads, f, g \in ThreadFunctions :
          f \in Own(t) /\ g \in Own(t) /\ thread_assign_move(t, f, g)
    \/ \E t \in Threads, f \in ThreadFunctions : f \in Own(t) /\ thread_function_destructor(t, f)
    \/ \E t \in Threads, f \in ThreadFunctions, throws \in BOOLEAN :
          f \in Own(t) /\ thread_function_call(t, f, throws)

SpecThreads == InitThreads /\ [][NextThreads]_vars

\* ---- what belongs to one thread ----
\* the storage thread t writes: its functions and the backup local to its operator=
Mine(t) == Own(t) \cup {LocalBackup(t)}
\* the heap objects the storage of thread t points to
Reach(t, W) == {a \in Addrs : \E l \in Mine(t) : W.stg[l].buf = Ptr(a)}
\* everything of thread t in the world W
View(t, W) ==
    [stg |-> [l \in Mine(t) |-> W.stg[l]],
     heap |-> [a \in Reach(t, W) |-> W.heap[a]],
     constructed |-> W.constructed \cap Own(t),
     pc |-> W.pc[t],
     last |-> W.last[t]]
\* the world W had the other threads never run, the allocator having handed
\* out the same addresses
Alone(t, W) ==
    [stg |-> [l \in ThreadLocations |-> IF l \in Mine(t) THEN W.stg[l] ELSE UninitStorage],
     heap |-> [a \in Addrs |->
                  IF a \in Reach(t, W) \/ W.heap[a].st # "live" THEN W.heap[a]
                  ELSE [W.heap[a] EXCEPT !.type = NoType, !.v = 0]],
     constructed |-> W.constructed \cap Own(t),
     pc |-> [u \in Threads |-> IF u = t THEN W.pc[u] ELSE "idle"],
     last |-> [u \in Threads |-> IF u = t THEN W.last[u] ELSE NoFrame]]

\* C14: two threads, each operating on its own functions, interleaved line by
\* line.  Whatever step a thread can take next, (1) it leaves every table,
\* buffer and held object of the other thread, and the other thread's place
\* in its own operation, as they are, and (2) it can take that step, and the
\* step leaves the thread's own functions in the same state, as when the
\* other thread had never run: nothing a step reads or writes belongs to
\* another thread's functions.
C14_ThreadsIndependent ==
    \A t \in Threads : \A r \in Requests(t) :
        /\ Permitted(t, World, r) = Permitted(t, Alone(t, World), r)
        /\ Permitted(t, World, r) =>
              /\ \A u \in Threads \ {t} :
                     View(u, Effect(t, World, r)) = View(u, World)
              /\ View(t, Effect(t, World, r)) = View(t, Effect(t, Alone(t, World), r))
\* thread t1 is inside a = b, has copied b's heap object into a and not yet
\* destroyed its backup, while thread t2 constructed c around a heap object
\* allocated between b's object and a's copy
C14_Witness ==
    /\ pc["t1"] = "destroy_backup"
    /\ \E p, q, r \in Addrs :
          /\ p < q /\ q < r
          /\ IsLive(heap, p) /\ IsLive(heap, q) /\ IsLive(heap, r)
          /\ Refers(stg, last["t1"].rhs, p)
          /\ Refers(stg, "c", q) /\ "c" \in constructed
          /\ Refers(stg, last["t1"].this, r)
    /\ stg[LocalBackup("t1")].buf.k = "obj"
====
